---- MODULE Spec2Model ----
(***************************************************************************)
(* Model of the two JSON repair scripts of the repository:                 *)
(*   clean_json.py : fix_line (quote repair of one line) and process_file  *)
(*   fix_hints.py  : clean_hints (backtick removal) and the module script  *)
(* Text is a sequence of one-character strings.                            *)
(***************************************************************************)
EXTENDS Integers, Sequences, FiniteSets, TLC

VARIABLES
    \* ---- fix_line applied to one line (SpecLine)
    line,          \* the argument of fix_line
    out1,          \* fix_line(line)
    out2,          \* fix_line(fix_line(line))
    branch,        \* which return statement of fix_line produced out1
    lpc,           \* "arg" -> "fixed" -> "refixed"
    \* ---- process_file (SpecFile)
    inputFile,     \* raw_questions.json on disk: NoFile or its raw lines
    lines,         \* f.readlines()
    fixed_lines,   \* the list built by the comprehension
    full_content,  \* "\n".join(fixed_lines)
    parsed,        \* "none", "ok" (json.loads returned), "err" (JSONDecodeError)
    cleanFile,     \* clean_questions.json: "absent" or "written"
    debugFile,     \* debug_intermediate.json: NoFile or its text
    raisedF,       \* an exception left process_file
    fpc,           \* position in process_file
    \* ---- fix_hints.py script (SpecHints)
    disk,          \* valid_questions.json on disk
    data,          \* the loaded document
    reported,      \* the except clause printed an error
    propagated,    \* an exception left the script
    failedAt,      \* the step that raised: "none", "load", "clean", "write"
    hpc,           \* position in the script
    disk0          \* history: valid_questions.json as the script found it

lineVars == <<line, out1, out2, branch, lpc>>
fileVars == <<inputFile, lines, fixed_lines, full_content, parsed, cleanFile,
              debugFile, raisedF, fpc>>
hintVars == <<disk, data, reported, propagated, failedAt, hpc, disk0>>
vars == <<lineVars, fileVars, hintVars>>

----------------------------------------------------------------------------
\* Characters

DQ == "\""
BS == "\\"
NL == "\n"
TAB == "\t"
COMMA == ","

\* what the regex class \s matches, among the characters of the model
WhiteSpace == {" ", TAB, NL}

NoFile == <<"nofile">>

----------------------------------------------------------------------------
\* Bounds

MaxIndent == 1
MaxBody == 4
MaxLines == 4
MaxNodes == 4

----------------------------------------------------------------------------
\* fix_line

\* the literal part of the pattern between (\s*) and (.*): "f": " or "b": "
KeyLiteral(key) == <<DQ, key, DQ, ":", " ", DQ>>

\* re.match returned None
NoMatch == [ok |-> FALSE, prefix |-> <<>>, content |-> <<>>, suffix |-> <<>>]

\* `$` of re.match: at the end of the string, or just before a final newline
AtDollar(s, p) ==
    \/ p = Len(s)
    \/ p = Len(s) - 1 /\ s[Len(s)] = NL

\* The ways ^(\s*)"key": "(.*)"(,?)$ can match s: n characters of indentation,
\* the content ends at index m, c = 1 when the comma is taken.
MatchCandidates(key, s) ==
    {t \in (0..Len(s)) \X (0..Len(s)) \X {0, 1} :
        /\ \A i \in 1..t[1] : s[i] \in WhiteSpace
        /\ t[1] + 6 <= Len(s)
        /\ SubSeq(s, t[1] + 1, t[1] + 6) = KeyLiteral(key)
        /\ t[2] >= t[1] + 6
        /\ \A i \in (t[1] + 7)..t[2] : s[i] # NL
        /\ t[2] + 1 <= Len(s)
        /\ s[t[2] + 1] = DQ
        /\ t[3] = 1 => (t[2] + 2 <= Len(s) /\ s[t[2] + 2] = COMMA)
        /\ AtDollar(s, t[2] + 1 + t[3])}

\* the candidate a backtracking matcher finds first: every quantifier greedy
Greedy(cands) ==
    CHOOSE t \in cands : \A u \in cands :
        \/ t[1] > u[1]
        \/ t[1] = u[1] /\ t[2] > u[2]
        \/ t[1] = u[1] /\ t[2] = u[2] /\ t[3] >= u[3]

ReMatch_NoAnchor(key, s) ==
    LET cands == {t \in (0..Len(s)) \X (0..Len(s)) \X {0, 1} :
                    /\ \A i \in 1..t[1] : s[i] \in WhiteSpace
                    /\ t[1] + 6 <= Len(s)
                    /\ SubSeq(s, t[1] + 1, t[1] + 6) = KeyLiteral(key)
                    /\ t[2] >= t[1] + 6
                    /\ \A i \in (t[1] + 7)..t[2] : s[i] # NL
                    /\ t[2] + 1 <= Len(s)
                    /\ s[t[2] + 1] = DQ
                    /\ t[3] = 1 => (t[2] + 2 <= Len(s) /\ s[t[2] + 2] = COMMA)}
    IN  IF cands = {} THEN NoMatch
        ELSE LET t == Greedy(cands)
             IN  [ok      |-> TRUE,
                  prefix  |-> SubSeq(s, 1, t[1]),
                  content |-> SubSeq(s, t[1] + 7, t[2]),
                  suffix  |-> IF t[3] = 1 THEN <<COMMA>> ELSE <<>>]

\* re.match(r'^(\s*)"key": "(.*)"(,?)$', s): NoMatch, or groups 1, 2 and 3
ReMatch(key, s) ==
    LET cands == MatchCandidates(key, s)
    IN  IF cands = {} THEN NoMatch
        ELSE LET t == Greedy(cands)
             IN  [ok      |-> TRUE,
                  prefix  |-> SubSeq(s, 1, t[1]),
                  content |-> SubSeq(s, t[1] + 7, t[2]),
                  suffix  |-> IF t[3] = 1 THEN <<COMMA>> ELSE <<>>]

\* mutant: content[i-1] read at i = 0 too, where Python wraps to the last character
RECURSIVE LoopF_WrapAround(_, _, _)
LoopF_WrapAround(content, i, fixed_content) ==
    IF i > Len(content) THEN fixed_content
    ELSE LET char == content[i]
             before == IF i > 1 THEN content[i - 1] ELSE content[Len(content)]
         IN  IF char = DQ
             THEN IF before = BS
                  THEN LoopF_WrapAround(content, i + 1, Append(fixed_content, char))
                  ELSE LoopF_WrapAround(content, i + 1, fixed_content \o <<BS, DQ>>)
             ELSE LoopF_WrapAround(content, i + 1, Append(fixed_content, char))

\* mutant: content.replace('"', '\\"'), the look-behind dropped
RECURSIVE LoopF_AlwaysEscape(_, _, _)
LoopF_AlwaysEscape(content, i, fixed_content) ==
    IF i > Len(content) THEN fixed_content
    ELSE LET char == content[i]
         IN  IF char = DQ
             THEN LoopF_AlwaysEscape(content, i + 1, fixed_content \o <<BS, DQ>>)
             ELSE LoopF_AlwaysEscape(content, i + 1, Append(fixed_content, char))

\* the while loop of the "f" branch; i is the 1-based index of content[i-1]
RECURSIVE LoopF(_, _, _)
LoopF(content, i, fixed_content) ==
    IF i > Len(content) THEN fixed_content
    ELSE LET char == content[i]
         IN  IF char = DQ
             THEN IF i > 1 /\ content[i - 1] = BS
                  THEN LoopF(content, i + 1, Append(fixed_content, char))
                  ELSE LoopF(content, i + 1, fixed_content \o <<BS, DQ>>)
             ELSE LoopF(content, i + 1, Append(fixed_content, char))

\* mutant: the look-behind tests the character after the quote
RECURSIVE LoopB_LookAhead(_, _, _)
LoopB_LookAhead(content, i, fixed_content) ==
    IF i > Len(content) THEN fixed_content
    ELSE LET char == content[i]
         IN  IF char = DQ
             THEN IF i < Len(content) /\ content[i + 1] = BS
                  THEN LoopB_LookAhead(content, i + 1, Append(fixed_content, char))
                  ELSE LoopB_LookAhead(content, i + 1, fixed_content \o <<BS, DQ>>)
             ELSE LoopB_LookAhead(content, i + 1, Append(fixed_content, char))

\* the while loop of the "b" branch
RECURSIVE LoopB(_, _, _)
LoopB(content, i, fixed_content) ==
    IF i > Len(content) THEN fixed_content
    ELSE LET char == content[i]
         IN  IF char = DQ
             THEN IF i > 1 /\ content[i - 1] = BS
                  THEN LoopB(content, i + 1, Append(fixed_content, char))
                  ELSE LoopB(content, i + 1, fixed_content \o <<BS, DQ>>)
             ELSE LoopB(content, i + 1, Append(fixed_content, char))

\* which return statement fix_line takes
fix_line_branch(s) ==
    IF ReMatch("f", s).ok THEN "f"
    ELSE IF ReMatch("b", s).ok THEN "b"
    ELSE "none"

\* mutant: the loop runs over the closing delimiter too
fix_line_EscapesDelimiter(s) ==
    LET f_match == ReMatch("f", s)
        b_match == ReMatch("b", s)
    IN  IF f_match.ok
        THEN f_match.prefix \o KeyLiteral("f")
                 \o LoopF(f_match.content \o <<DQ>>, 1, <<>>) \o f_match.suffix
        ELSE IF b_match.ok
        THEN b_match.prefix \o KeyLiteral("b")
                 \o LoopB(b_match.content \o <<DQ>>, 1, <<>>) \o b_match.suffix
        ELSE s

fix_line(s) ==
    LET f_match == ReMatch("f", s)
        b_match == ReMatch("b", s)
    IN  IF f_match.ok
        THEN f_match.prefix \o KeyLiteral("f")
                 \o LoopF(f_match.content, 1, <<>>) \o <<DQ>> \o f_match.suffix
        ELSE IF b_match.ok
        THEN b_match.prefix \o KeyLiteral("b")
                 \o LoopB(b_match.content, 1, <<>>) \o <<DQ>> \o b_match.suffix
        ELSE s

----------------------------------------------------------------------------
\* Lines handed to fix_line. process_file passes line.rstrip('\n') of a line
\* of readlines(), so an argument holds no newline.

SeqsUpTo(S, n) == UNION {[1..k -> S] : k \in 0..n}

Indents == SeqsUpTo({" ", TAB}, MaxIndent)

Heads == {KeyLiteral("f"), KeyLiteral("b"), KeyLiteral("c"),
          <<DQ, "f", DQ, ":", DQ>>, <<"x">> \o KeyLiteral("b"), <<>>}

BodyChars == {DQ, BS, COMMA, "x"}

ArgLines == {ind \o h \o b : ind \in Indents, h \in Heads,
                             b \in SeqsUpTo(BodyChars, MaxBody)}

IdleFile ==
    /\ inputFile = NoFile /\ lines = <<>> /\ fixed_lines = <<>>
    /\ full_content = <<>> /\ parsed = "none" /\ cleanFile = "absent"
    /\ debugFile = NoFile /\ raisedF = FALSE /\ fpc = "idle"

IdleHints ==
    /\ disk = NoFile /\ data = NoFile /\ reported = FALSE
    /\ propagated = FALSE /\ failedAt = "none" /\ hpc = "idle" /\ disk0 = NoFile

InitLine ==
    /\ line \in ArgLines
    /\ out1 = <<>> /\ out2 = <<>> /\ branch = "none" /\ lpc = "arg"
    /\ IdleFile /\ IdleHints

\* out1 = fix_line(line)
Fix ==
    /\ lpc = "arg"
    /\ out1' = fix_line(line)
    /\ branch' = fix_line_branch(line)
    /\ lpc' = "fixed"
    /\ UNCHANGED <<line, out2, fileVars, hintVars>>

\* out2 = fix_line(out1)
Refix ==
    /\ lpc = "fixed"
    /\ out2' = fix_line(out1)
    /\ lpc' = "refixed"
    /\ UNCHANGED <<line, out1, branch, fileVars, hintVars>>

NextLine == Fix \/ Refix

SpecLine == InitLine /\ [][NextLine]_vars

----------------------------------------------------------------------------
\* process_file

\* f.readlines(): the text cut after every newline, the newline kept
RECURSIVE ReadLinesFrom(_, _, _)
ReadLinesFrom(text, i, cur) ==
    IF i > Len(text) THEN (IF cur = <<>> THEN <<>> ELSE <<cur>>)
    ELSE IF text[i] = NL
         THEN <<Append(cur, NL)>> \o ReadLinesFrom(text, i + 1, <<>>)
         ELSE ReadLinesFrom(text, i + 1, Append(cur, text[i]))

readlines(text) == ReadLinesFrom(text, 1, <<>>)

\* s.rstrip('\n')
RECURSIVE rstrip(_)
rstrip(s) ==
    IF s # <<>> /\ s[Len(s)] = NL THEN rstrip(SubSeq(s, 1, Len(s) - 1)) ELSE s

\* "\n".join(parts)
RECURSIVE join(_)
join(parts) ==
    IF parts = <<>> THEN <<>>
    ELSE IF Len(parts) = 1 THEN parts[1]
    ELSE parts[1] \o <<NL>> \o join(SubSeq(parts, 2, Len(parts)))

\* json.loads, as far as whether it returns or raises JSONDecodeError, on
\* text whose values are strings, objects and arrays. A Scan operator takes
\* the index where its item starts and gives the index after it, 0 on error.
JsonWS == {" ", TAB, NL}
JsonEscapes == {DQ, BS, "/", "b", "f", "n", "r", "t"}
JsonControl == {TAB, NL}

RECURSIVE SkipWS(_, _)
SkipWS(s, i) ==
    IF i <= Len(s) /\ s[i] \in JsonWS THEN SkipWS(s, i + 1) ELSE i

\* i is the index after the opening quote
RECURSIVE ScanString(_, _)
ScanString(s, i) ==
    IF i > Len(s) THEN 0
    ELSE IF s[i] = DQ THEN i + 1
    ELSE IF s[i] = BS
         THEN IF i + 1 <= Len(s) /\ s[i + 1] \in JsonEscapes
              THEN ScanString(s, i + 2)
              ELSE 0
    ELSE IF s[i] \in JsonControl THEN 0
    ELSE ScanString(s, i + 1)

RECURSIVE ScanValue(_, _), ScanMembers(_, _), ScanElements(_, _)
ScanValue(s, i) ==
    IF i > Len(s) THEN 0
    ELSE IF s[i] = DQ THEN ScanString(s, i + 1)
    ELSE IF s[i] = "{"
         THEN LET j == SkipWS(s, i + 1)
              IN  IF j <= Len(s) /\ s[j] = "}" THEN j + 1 ELSE ScanMembers(s, j)
    ELSE IF s[i] = "["
         THEN LET j == SkipWS(s, i + 1)
              IN  IF j <= Len(s) /\ s[j] = "]" THEN j + 1 ELSE ScanElements(s, j)
    ELSE 0

\* i is where a property name must start
ScanMembers(s, i) ==
    IF i > Len(s) \/ s[i] # DQ THEN 0
    ELSE LET k == ScanString(s, i + 1)
             c == SkipWS(s, k)
         IN  IF k = 0 \/ c > Len(s) \/ s[c] # ":" THEN 0
             ELSE LET v == ScanValue(s, SkipWS(s, c + 1))
                      e == SkipWS(s, v)
                  IN  IF v = 0 \/ e > Len(s) THEN 0
                      ELSE IF s[e] = "}" THEN e + 1
                      ELSE IF s[e] = COMMA THEN ScanMembers(s, SkipWS(s, e + 1))
                      ELSE 0

\* i is where an array element must start
ScanElements(s, i) ==
    LET v == ScanValue(s, i)
        e == SkipWS(s, v)
    IN  IF v = 0 \/ e > Len(s) THEN 0
        ELSE IF s[e] = "]" THEN e + 1
        ELSE IF s[e] = COMMA THEN ScanElements(s, SkipWS(s, e + 1))
        ELSE 0

json_loads_ok(s) ==
    LET v == ScanValue(s, SkipWS(s, 1))
    IN  v # 0 /\ SkipWS(s, v) = Len(s) + 1

\* Lines of raw_questions.json
FileLines == {<<"{">>, <<"}">>,
              KeyLiteral("f") \o <<"x", DQ, "x", DQ, COMMA>>,
              KeyLiteral("b") \o <<"x", DQ, "x", DQ>>,
              <<" ">> \o KeyLiteral("b") \o <<BS, DQ, DQ>>,
              KeyLiteral("c") \o <<"x", DQ>>}

\* texts of at most MaxLines lines, the last with or without its newline
InputTexts ==
    {join(ls) \o e : ls \in SeqsUpTo(FileLines, MaxLines), e \in {<<>>, <<NL>>}}

IdleLine ==
    /\ line = <<>> /\ out1 = <<>> /\ out2 = <<>> /\ branch = "none" /\ lpc = "idle"

InitFile ==
    /\ inputFile \in {NoFile} \cup InputTexts
    /\ lines = <<>> /\ fixed_lines = <<>> /\ full_content = <<>>
    /\ parsed = "none" /\ cleanFile = "absent" /\ debugFile = NoFile
    /\ raisedF = FALSE /\ fpc = "start"
    /\ IdleLine /\ IdleHints

\* mutant: no except clause for FileNotFoundError
OpenMissing_Uncaught ==
    /\ fpc = "start"
    /\ inputFile = NoFile
    /\ raisedF' = TRUE
    /\ fpc' = "done"
    /\ UNCHANGED <<inputFile, lines, fixed_lines, full_content, parsed,
                   cleanFile, debugFile, lineVars, hintVars>>

\* open() raises FileNotFoundError, the except clause reports it
OpenMissing ==
    /\ fpc = "start"
    /\ inputFile = NoFile
    /\ fpc' = "done"
    /\ UNCHANGED <<inputFile, lines, fixed_lines, full_content, parsed,
                   cleanFile, debugFile, raisedF, lineVars, hintVars>>

ReadInput ==
    /\ fpc = "start"
    /\ inputFile # NoFile
    /\ lines' = readlines(inputFile)
    /\ fpc' = "fix"
    /\ UNCHANGED <<inputFile, fixed_lines, full_content, parsed, cleanFile,
                   debugFile, raisedF, lineVars, hintVars>>

\* one element of the list comprehension
FixNext ==
    /\ fpc = "fix"
    /\ Len(fixed_lines) < Len(lines)
    /\ fixed_lines' =
           Append(fixed_lines, fix_line(rstrip(lines[Len(fixed_lines) + 1])))
    /\ UNCHANGED <<inputFile, lines, full_content, parsed, cleanFile,
                   debugFile, raisedF, fpc, lineVars, hintVars>>

JoinAndParse ==
    /\ fpc = "fix"
    /\ Len(fixed_lines) = Len(lines)
    /\ full_content' = join(fixed_lines)
    /\ parsed' = IF json_loads_ok(full_content') THEN "ok" ELSE "err"
    /\ fpc' = "parsed"
    /\ UNCHANGED <<inputFile, lines, fixed_lines, cleanFile, debugFile,
                   raisedF, lineVars, hintVars>>

\* mutant: the debug copy is written before the parse is tried
WriteClean_AfterDebug ==
    /\ fpc = "parsed"
    /\ parsed = "ok"
    /\ cleanFile' = "written"
    /\ debugFile' = full_content
    /\ fpc' = "done"
    /\ UNCHANGED <<inputFile, lines, fixed_lines, full_content, parsed,
                   raisedF, lineVars, hintVars>>

\* the try body after json.loads returned
WriteClean ==
    /\ fpc = "parsed"
    /\ parsed = "ok"
    /\ cleanFile' = "written"
    /\ fpc' = "done"
    /\ UNCHANGED <<inputFile, lines, fixed_lines, full_content, parsed,
                   debugFile, raisedF, lineVars, hintVars>>

\* the except JSONDecodeError clause
WriteDebug ==
    /\ fpc = "parsed"
    /\ parsed = "err"
    /\ debugFile' = full_content
    /\ fpc' = "done"
    /\ UNCHANGED <<inputFile, lines, fixed_lines, full_content, parsed,
                   cleanFile, raisedF, lineVars, hintVars>>

NextFile ==
    OpenMissing \/ ReadInput \/ FixNext \/ JoinAndParse \/ WriteClean \/ WriteDebug

SpecFile == InitFile /\ [][NextFile]_vars

----------------------------------------------------------------------------
\* fix_hints.py
\* A parsed JSON value is a pair <<type, value>>: "str" with its text, "num"
\* or "null" with nothing, "list" with the sequence of its elements, "dict"
\* with the sequence of its entries <<key, value>> in insertion order, the
\* keys distinct.

\* the character U+0060, which a TLA+ string cannot hold
BT == "BACKTICK"

Str(text) == <<"str", text>>
Num == <<"num", <<>>>>
Null == <<"null", <<>>>>
List(elems) == <<"list", elems>>
Dict(entries) == <<"dict", entries>>
Entry(key, value) == <<key, value>>

TypeOf(d) == d[1]
\* the text of a str, the elements of a list, the entries of a dict
ValueOf(d) == d[2]
KeyOf(entry) == entry[1]
ItemOf(entry) == entry[2]

\* mutant: only the first occurrence is removed, as replace(BT, "", 1) does
RECURSIVE replace_backtick_FirstOnly(_)
replace_backtick_FirstOnly(text) ==
    IF text = <<>> THEN <<>>
    ELSE IF Head(text) = BT THEN Tail(text)
    ELSE <<Head(text)>> \o replace_backtick_FirstOnly(Tail(text))

\* text.replace(BT, "")
RECURSIVE replace_backtick(_)
replace_backtick(text) ==
    IF text = <<>> THEN <<>>
    ELSE IF Head(text) = BT THEN replace_backtick(Tail(text))
    ELSE <<Head(text)>> \o replace_backtick(Tail(text))

\* item is a dict: its "hint" entry, when text, with the backticks removed
CleanOwnHint(item) ==
    Dict([j \in DOMAIN ValueOf(item) |->
            LET e == ValueOf(item)[j]
            IN  IF KeyOf(e) = "hint" /\ TypeOf(ItemOf(e)) = "str"
                THEN Entry("hint", Str(replace_backtick(ValueOf(ItemOf(e)))))
                ELSE e])

\* mutant: the dict branch cleans text under every key
RECURSIVE clean_hints_AnyKey(_)
clean_hints_AnyKey(d) ==
    IF TypeOf(d) = "list"
    THEN List([i \in DOMAIN ValueOf(d) |->
            LET item == ValueOf(d)[i]
            IN  IF TypeOf(item) = "dict"
                THEN Dict([j \in DOMAIN ValueOf(item) |->
                        LET e == ValueOf(CleanOwnHint(item))[j]
                        IN  Entry(KeyOf(e), clean_hints_AnyKey(ItemOf(e)))])
                ELSE item])
    ELSE IF TypeOf(d) = "dict"
    THEN Dict([j \in DOMAIN ValueOf(d) |->
            LET e == ValueOf(d)[j]
            IN  IF TypeOf(ItemOf(e)) = "str"
                THEN Entry(KeyOf(e), Str(replace_backtick(ValueOf(ItemOf(e)))))
                ELSE Entry(KeyOf(e), clean_hints_AnyKey(ItemOf(e)))])
    ELSE d

\* clean_hints(data); the in-place mutation is given as the resulting value.
\* In the list branch only the elements that are dicts are looked at: their
\* "hint" text is cleaned, then clean_hints runs on each of their values.
RECURSIVE clean_hints(_)
clean_hints(d) ==
    IF TypeOf(d) = "list"
    THEN List([i \in DOMAIN ValueOf(d) |->
            LET item == ValueOf(d)[i]
            IN  IF TypeOf(item) = "dict"
                THEN Dict([j \in DOMAIN ValueOf(item) |->
                        LET e == ValueOf(CleanOwnHint(item))[j]
                        IN  Entry(KeyOf(e), clean_hints(ItemOf(e)))])
                ELSE item])
    ELSE IF TypeOf(d) = "dict"
    THEN Dict([j \in DOMAIN ValueOf(d) |->
            LET e == ValueOf(d)[j]
            IN  IF KeyOf(e) = "hint" /\ TypeOf(ItemOf(e)) = "str"
                THEN Entry("hint", Str(replace_backtick(ValueOf(ItemOf(e)))))
                ELSE Entry(KeyOf(e), clean_hints(ItemOf(e)))])
    ELSE d

\* Documents of valid_questions.json: the values of at most MaxNodes nodes
Texts == {<<"x">>, <<BT>>, <<BT, "x", BT>>}
Scalars == {Str(x) : x \in Texts} \cup {Num, Null}
Keys == {"hint", "other"}

RECURSIVE TreesOfSize(_), Forests(_), Entries(_, _)
TreesOfSize(n) ==
    (IF n = 1 THEN Scalars ELSE {})
        \cup {List(f) : f \in Forests(n - 1)}
        \cup {Dict(e) : e \in Entries(n - 1, Keys)}

\* the sequences of values of n nodes in all
Forests(n) ==
    IF n = 0 THEN {<<>>}
    ELSE UNION {{<<x>> \o f : x \in TreesOfSize(k), f \in Forests(n - k)} : k \in 1..n}

\* the sequences of entries of n nodes in all, the keys distinct and in avail
Entries(n, avail) ==
    IF n = 0 THEN {<<>>}
    ELSE UNION {{<<Entry(p[2], x)>> \o e :
                    x \in TreesOfSize(p[1]), e \in Entries(n - p[1], avail \ {p[2]})} :
                 p \in (1..n) \X avail}

Documents == UNION {TreesOfSize(n) : n \in 1..MaxNodes}

Invalid == <<"invalid">>
Truncated == <<"truncated">>
OnDisk(doc) == <<"doc", doc>>

InitHints ==
    /\ disk \in {NoFile, Invalid} \cup {OnDisk(doc) : doc \in Documents}
    /\ disk0 = disk
    /\ data = NoFile
    /\ reported = FALSE /\ propagated = FALSE /\ failedAt = "none"
    /\ hpc = "start"
    /\ IdleLine /\ IdleFile

\* json.load returns the document
Load ==
    /\ hpc = "start"
    /\ disk[1] = "doc"
    /\ data' = disk[2]
    /\ hpc' = "loaded"
    /\ UNCHANGED <<disk, disk0, reported, propagated, failedAt, lineVars, fileVars>>

\* mutant: except json.JSONDecodeError in place of except Exception
LoadFails_Narrow ==
    /\ hpc = "start"
    /\ disk \in {NoFile, Invalid}
    /\ failedAt' = "load"
    /\ reported' = (disk = Invalid)
    /\ propagated' = (disk = NoFile)
    /\ hpc' = "done"
    /\ UNCHANGED <<disk, disk0, data, lineVars, fileVars>>

\* open raises FileNotFoundError or json.load raises JSONDecodeError; the
\* except Exception clause prints the error
LoadFails ==
    /\ hpc = "start"
    /\ disk \in {NoFile, Invalid}
    /\ failedAt' = "load"
    /\ reported' = TRUE
    /\ hpc' = "done"
    /\ UNCHANGED <<disk, disk0, data, propagated, lineVars, fileVars>>

Clean ==
    /\ hpc = "loaded"
    /\ data' = clean_hints(data)
    /\ hpc' = "cleaned"
    /\ UNCHANGED <<disk, disk0, reported, propagated, failedAt, lineVars, fileVars>>

\* clean_hints raises (RecursionError, MemoryError); what it had changed in
\* data so far is dropped with it
CleanFails ==
    /\ hpc = "loaded"
    /\ failedAt' = "clean"
    /\ reported' = TRUE
    /\ hpc' = "done"
    /\ UNCHANGED <<disk, disk0, data, propagated, lineVars, fileVars>>

\* open(..., 'w') and json.dump
Write ==
    /\ hpc = "cleaned"
    /\ disk' = OnDisk(data)
    /\ hpc' = "done"
    /\ UNCHANGED <<disk0, data, reported, propagated, failedAt, lineVars, fileVars>>

\* open(..., 'w') raises and the file is as it was, or json.dump raises after
\* open truncated it
WriteFails ==
    /\ hpc = "cleaned"
    /\ disk' \in {disk, Truncated}
    /\ failedAt' = "write"
    /\ reported' = TRUE
    /\ hpc' = "done"
    /\ UNCHANGED <<disk0, data, propagated, lineVars, fileVars>>

NextHints == Load \/ LoadFails \/ Clean \/ CleanFails \/ Write \/ WriteFails

SpecHints == InitHints /\ [][NextHints]_vars

----------------------------------------------------------------------------
\* Properties of fix_line

\* s is n whitespace characters, "key": ", a content span, a quote and c commas
Shaped(s, key, n, c) ==
    /\ n + 7 + c <= Len(s)
    /\ \A i \in 1..n : s[i] \in WhiteSpace
    /\ SubSeq(s, n + 1, n + 6) = KeyLiteral(key)
    /\ s[Len(s) - c] = DQ
    /\ c = 1 => s[Len(s)] = COMMA

HasShape(s) ==
    \E key \in {"f", "b"}, n \in 0..Len(s), c \in {0, 1} : Shaped(s, key, n, c)

SpanOf(s, n, c) == SubSeq(s, n + 7, Len(s) - c - 1)

\* position i of a content span holds a quote not preceded by a backslash
Unescaped(content, i) ==
    content[i] = DQ /\ (i = 1 \/ content[i - 1] # BS)

\* E of the first n characters of content
RECURSIVE E(_, _)
E(content, n) ==
    IF n = 0 THEN <<>>
    ELSE E(content, n - 1)
             \o (IF Unescaped(content, n) THEN <<BS, DQ>> ELSE <<content[n]>>)

OtherKey(key) == IF key = "f" THEN "b" ELSE "f"

Expected(s, key, n, c) ==
    SubSeq(s, 1, n) \o KeyLiteral(key)
        \o E(SpanOf(s, n, c), Len(SpanOf(s, n, c)))
        \o <<DQ>> \o SubSeq(s, Len(s) - c + 1, Len(s))

\* C1: a line of the shape <whitespace>"f|b": "<content>"<optional comma> is
\* returned with the same whitespace, key and comma and with E(content) as its
\* content, E escaping exactly the quotes not preceded by a backslash; the
\* line with the other key gives the same result under the other key.
C1_MatchedLineEscaped ==
    lpc # "arg" =>
        \A key \in {"f", "b"}, n \in 0..Len(line), c \in {0, 1} :
            Shaped(line, key, n, c) =>
                /\ out1 = Expected(line, key, n, c)
                /\ LET o == OtherKey(key)
                       twin == SubSeq(line, 1, n) \o KeyLiteral(o)
                                   \o SubSeq(line, n + 7, Len(line))
                   IN  fix_line(twin) = Expected(twin, o, n, c)

\* a matched "b" line with a comma whose content held two unescaped quotes,
\* the first at index 0
C1_Witness ==
    /\ lpc = "fixed"
    /\ \E n \in 0..Len(line) :
          /\ Shaped(line, "b", n, 1)
          /\ SpanOf(line, n, 1) # <<>>
          /\ Unescaped(SpanOf(line, n, 1), 1)
          /\ Len(out1) = Len(line) + 2

\* C2: a line without that shape is returned as it is
C2_OtherLinesUnchanged ==
    (lpc # "arg" /\ ~HasShape(line)) => out1 = line

\* a line with key "c" that ends in a quote and holds an inner quote, and a
\* line with key "f" whose last quote is followed by text
C2_Witness ==
    /\ lpc = "fixed"
    /\ ~HasShape(line)
    /\ \/ /\ Len(line) = 9
          /\ SubSeq(line, 1, 6) = KeyLiteral("c")
          /\ line[7] = DQ /\ line[9] = DQ
       \/ /\ Len(line) = 9
          /\ SubSeq(line, 1, 6) = KeyLiteral("f")
          /\ line[8] = DQ /\ line[9] = "x"

AllEscaped(content) ==
    \A i \in 1..Len(content) : ~Unescaped(content, i)

\* C5: on a matched line whose content quotes are all preceded by a backslash,
\* fix_line returns the line itself and so does a second application
C5_EscapedLineFixed ==
    lpc = "refixed" =>
        \A key \in {"f", "b"}, n \in 0..Len(line), c \in {0, 1} :
            (Shaped(line, key, n, c) /\ AllEscaped(SpanOf(line, n, c))) =>
                (out1 = line /\ out2 = out1)

\* a matched "f" line whose content holds an escaped quote
C5_Witness ==
    /\ lpc = "refixed"
    /\ \E n \in 0..Len(line), c \in {0, 1} :
          /\ Shaped(line, "f", n, c)
          /\ AllEscaped(SpanOf(line, n, c))
          /\ \E i \in 1..Len(SpanOf(line, n, c)) : SpanOf(line, n, c)[i] = DQ

\* index of the rightmost quote of s, 0 when it has none
LastQuote(s) ==
    IF \E i \in 1..Len(s) : s[i] = DQ
    THEN CHOOSE i \in 1..Len(s) : s[i] = DQ /\ \A j \in (i + 1)..Len(s) : s[j] # DQ
    ELSE 0

\* number of leading whitespace characters of s
IndentOf(s) ==
    CHOOSE n \in 0..Len(s) :
        /\ \A i \in 1..n : s[i] \in WhiteSpace
        /\ n < Len(s) => s[n + 1] \notin WhiteSpace

After(s, r) == SubSeq(s, r + 1, Len(s))

\* C9: when fix_line matches, the content span runs from the quote after
\* "key": to the rightmost quote of the line; the quotes between the two are
\* content and are escaped by E, the two delimiters are emitted as they are,
\* and only an optional comma follows the closing one; a line whose rightmost
\* quote is followed by anything else is not matched.
C9_RightmostQuoteCloses ==
    lpc # "arg" =>
        LET r == LastQuote(line)
            o == IndentOf(line) + 6
        IN  /\ branch # "none" =>
                  /\ SubSeq(line, o - 5, o) = KeyLiteral(branch)
                  /\ r > o
                  /\ After(line, r) \in {<<>>, <<COMMA>>}
                  /\ out1 = SubSeq(line, 1, o)
                               \o E(SubSeq(line, o + 1, r - 1), r - 1 - o)
                               \o SubSeq(line, r, Len(line))
            /\ After(line, r) \notin {<<>>, <<COMMA>>} => (branch = "none" /\ out1 = line)

\* a matched line with a quote inside the span and a backslash before the
\* closing delimiter
C9_Witness ==
    /\ lpc = "fixed"
    /\ branch = "f"
    /\ LET r == LastQuote(line)
           o == IndentOf(line) + 6
       IN  /\ r >= o + 3
           /\ line[o + 1] = DQ
           /\ line[r - 1] = BS

\* C10: fix_line is idempotent on every line: its output is matched again
\* with the same groups 1 and 3 and the same span, every quote of the span is
\* preceded by a backslash, and the second application changes nothing.
C10_Idempotent ==
    lpc = "refixed" =>
        /\ out2 = out1
        /\ fix_line_branch(out1) = branch
        /\ branch # "none" =>
              LET m0 == ReMatch(branch, line)
                  m1 == ReMatch(branch, out1)
                  o == Len(m0.prefix) + 6
                  r == LastQuote(out1)
              IN  /\ m1.ok
                  /\ m1.prefix = m0.prefix
                  /\ m1.suffix = m0.suffix
                  /\ m1.content = SubSeq(out1, o + 1, r - 1)
                  /\ m1.content = E(m0.content, Len(m0.content))
                  /\ \A i \in (o + 1)..(r - 1) :
                        out1[i] = DQ => (i > o + 1 /\ out1[i - 1] = BS)

\* a matched "b" line that fix_line changed
C10_Witness ==
    /\ lpc = "refixed"
    /\ branch = "b"
    /\ out1 # line
    /\ out2 = out1

----------------------------------------------------------------------------
\* Properties of process_file

\* fix_line applied to each line read, the results joined with newlines
RepairedText ==
    join([i \in 1..Len(lines) |-> fix_line(rstrip(lines[i]))])

\* C6: with the input file present, the parse of the repaired and rejoined
\* text decides the outcome: on failure that text goes unchanged to
\* debug_intermediate.json, clean_questions.json is not written and nothing
\* is raised; on success clean_questions.json is written and the debug file
\* is not. Never both, and never clean_questions.json without a successful
\* parse before it.
C6_ParseDecidesOutput ==
    /\ ~(cleanFile = "written" /\ debugFile # NoFile)
    /\ cleanFile = "written" => parsed = "ok"
    /\ debugFile # NoFile => parsed = "err"
    /\ (inputFile # NoFile /\ fpc = "done") =>
          /\ parsed = (IF json_loads_ok(RepairedText) THEN "ok" ELSE "err")
          /\ parsed = "err" =>
                (debugFile = RepairedText /\ cleanFile = "absent" /\ ~raisedF)
          /\ parsed = "ok" => (cleanFile = "written" /\ debugFile = NoFile)

\* a run that repaired a line, failed to parse and wrote the debug file
C6_Witness ==
    /\ fpc = "done"
    /\ parsed = "err"
    /\ debugFile = RepairedText
    /\ \E i \in 1..Len(lines) : fixed_lines[i] # rstrip(lines[i])

\* C7: with raw_questions.json missing the run ends normally: nothing is
\* raised, no line is repaired, no parse is tried and no file is written
C7_MissingInputHandled ==
    inputFile = NoFile =>
        /\ ~raisedF
        /\ fpc \in {"start", "done"}
        /\ lines = <<>> /\ fixed_lines = <<>> /\ full_content = <<>>
        /\ parsed = "none"
        /\ cleanFile = "absent" /\ debugFile = NoFile

\* the run has ended on the missing file
C7_Witness ==
    inputFile = NoFile /\ fpc = "done"

----------------------------------------------------------------------------
\* Properties of fix_hints.py

HasBacktick(text) == \E i \in 1..Len(text) : text[i] = BT

\* no "hint" entry anywhere in d holds text with a backtick
RECURSIVE NoBacktickHint(_)
NoBacktickHint(d) ==
    IF TypeOf(d) = "list"
    THEN \A i \in DOMAIN ValueOf(d) : NoBacktickHint(ValueOf(d)[i])
    ELSE IF TypeOf(d) = "dict"
    THEN \A j \in DOMAIN ValueOf(d) :
            LET e == ValueOf(d)[j]
            IN  /\ (KeyOf(e) = "hint" /\ TypeOf(ItemOf(e)) = "str")
                      => ~HasBacktick(ValueOf(ItemOf(e)))
                /\ NoBacktickHint(ItemOf(e))
    ELSE TRUE

\* C3: after clean_hints no "hint" text anywhere in the document, at any
\* depth and also in arrays directly inside arrays, contains a backtick
C3_NoBacktickLeftInHints ==
    hpc = "cleaned" => NoBacktickHint(data)

NotBacktick(c) == c # BT

\* new is old but for "hint" texts, each as before or with every backtick
\* deleted and the other characters kept in order
RECURSIVE Framed(_, _)
Framed(old, new) ==
    /\ TypeOf(new) = TypeOf(old)
    /\ IF TypeOf(old) = "list"
       THEN /\ Len(ValueOf(new)) = Len(ValueOf(old))
            /\ \A i \in DOMAIN ValueOf(old) : Framed(ValueOf(old)[i], ValueOf(new)[i])
       ELSE IF TypeOf(old) = "dict"
       THEN /\ Len(ValueOf(new)) = Len(ValueOf(old))
            /\ \A j \in DOMAIN ValueOf(old) :
                  LET eo == ValueOf(old)[j]
                      en == ValueOf(new)[j]
                  IN  /\ KeyOf(en) = KeyOf(eo)
                      /\ IF KeyOf(eo) = "hint" /\ TypeOf(ItemOf(eo)) = "str"
                         THEN /\ TypeOf(ItemOf(en)) = "str"
                              /\ ValueOf(ItemOf(en)) \in
                                    {ValueOf(ItemOf(eo)),
                                     SelectSeq(ValueOf(ItemOf(eo)), NotBacktick)}
                         ELSE Framed(ItemOf(eo), ItemOf(en))
       ELSE new = old

\* C4: clean_hints changes only text stored under "hint": the shape, the
\* keys and their order and every other scalar stay, text with backticks
\* under another key and a "hint" that is no text included; a changed
\* "hint" text is the old one without its backticks
C4_OnlyHintTextChanges ==
    hpc = "cleaned" => Framed(disk0[2], data)

\* {"hint": BT x BT, "other": BT} cleaned to {"hint": x, "other": BT}
C4_Witness ==
    /\ hpc = "cleaned"
    /\ disk0 = OnDisk(Dict(<<Entry("hint", Str(<<BT, "x", BT>>)),
                             Entry("other", Str(<<BT>>))>>))
    /\ data = Dict(<<Entry("hint", Str(<<"x">>)), Entry("other", Str(<<BT>>))>>)

\* C8: a failure of the load, the cleaning or the write is reported and
\* does not leave the script, and valid_questions.json is written only after
\* the load and clean_hints have both completed: a failure of either leaves
\* the file as it was
C8_FailuresCaughtFileKept ==
    /\ ~propagated
    /\ failedAt # "none" => (reported /\ hpc = "done")
    /\ (hpc \in {"start", "loaded", "cleaned"} \/ failedAt \in {"load", "clean"})
          => disk = disk0

\* clean_hints failed on a document it had a backtick to remove from, and a
\* load failed on a missing file
C8_Witness ==
    /\ hpc = "done"
    /\ reported
    /\ \/ failedAt = "clean" /\ disk[1] = "doc" /\ ~NoBacktickHint(disk[2])
       \/ failedAt = "load" /\ disk = NoFile

====
